---------------------------- MODULE Spec2Model ----------------------------
(***************************************************************************)
(* Model of core/vm/sqlvm/errors/errors.go: the Error record, the          *)
(* ErrorCategory / ErrorCode enumerations with their name tables, the      *)
(* rendering of an Error and of an ErrorList.                              *)
(*                                                                         *)
(* Go strings are TLA+ strings; a byte of a string s is SubSeq(s, i, i).   *)
(* A Go call either returns a value or panics: the result of a call is the *)
(* record [panic |-> FALSE, val |-> v] or [panic |-> TRUE, val |-> msg].   *)
(***************************************************************************)
EXTENDS Integers, Sequences, FiniteSets, TLC

VARIABLES
    errorCategoryMap,   \* package variable: name table of ErrorCategory
    errorCodeMap,       \* package variable: name table of ErrorCode
    cur,                \* the Error value the producer has assembled
    list,               \* the ErrorList under construction
    b,                  \* contents of the strings.Builder of the last render
    call,               \* the operation performed last
    ret,                \* result of the last call
    abi                 \* what of cur has been handed across the ABI boundary

vars == <<errorCategoryMap, errorCodeMap, cur, list, b, call, ret, abi>>

---------------------------------------------------------------------------
(* Results of calls *)

Ok(v) == [panic |-> FALSE, val |-> v]

Panic(msg) == [panic |-> TRUE, val |-> msg]

---------------------------------------------------------------------------
(* Enumerations: const blocks numbered by iota *)

ErrorCategoryConsts ==
    << "ErrorCategoryNil",
       "ErrorCategoryLimit",
       "ErrorCategoryGrammar",
       "ErrorCategorySemantic",
       "ErrorCategoryRuntime" >>

ErrorCodeConsts ==
    << "ErrorCodeNil",
       "ErrorCodeDepthLimitReached",
       "ErrorCodeParser",
       "ErrorCodeInvalidIntegerSyntax",
       "ErrorCodeInvalidNumberSyntax",
       "ErrorCodeIntegerOutOfRange",
       "ErrorCodeNumberOutOfRange",
       "ErrorCodeFractionalPartTooLong",
       "ErrorCodeEscapeSequenceTooShort",
       "ErrorCodeInvalidUnicodeCodePoint",
       "ErrorCodeUnknownEscapeSequence",
       "ErrorCodeInvalidBytesSize",
       "ErrorCodeInvalidIntSize",
       "ErrorCodeInvalidUintSize",
       "ErrorCodeInvalidFixedSize",
       "ErrorCodeInvalidUfixedSize",
       "ErrorCodeInvalidFixedFractionalDigits",
       "ErrorCodeInvalidUfixedFractionalDigits",
       "ErrorCodeInvalidDataType",
       "ErrorCodeOverflow",
       "ErrorCodeUnderflow",
       "ErrorCodeIndexOutOfRange",
       "ErrorCodeInvalidCastType",
       "ErrorCodeDividedByZero" >>

\* A const block numbered from 1: the first constant would lose the value 0.
IotaFromOne(block, name) == CHOOSE i \in 1..Len(block) : block[i] = name

\* The value iota gives the constant `name` of a const block: its index in
\* the block, counted from 0.
Iota(block, name) == (CHOOSE i \in 1..Len(block) : block[i] = name) - 1

ErrorCategoryNil      == Iota(ErrorCategoryConsts, "ErrorCategoryNil")
ErrorCategoryLimit    == Iota(ErrorCategoryConsts, "ErrorCategoryLimit")
ErrorCategoryGrammar  == Iota(ErrorCategoryConsts, "ErrorCategoryGrammar")
ErrorCategorySemantic == Iota(ErrorCategoryConsts, "ErrorCategorySemantic")
ErrorCategoryRuntime  == Iota(ErrorCategoryConsts, "ErrorCategoryRuntime")

ErrorCodeNil                           == Iota(ErrorCodeConsts, "ErrorCodeNil")
ErrorCodeDepthLimitReached             == Iota(ErrorCodeConsts, "ErrorCodeDepthLimitReached")
ErrorCodeParser                        == Iota(ErrorCodeConsts, "ErrorCodeParser")
ErrorCodeInvalidIntegerSyntax          == Iota(ErrorCodeConsts, "ErrorCodeInvalidIntegerSyntax")
ErrorCodeInvalidNumberSyntax           == Iota(ErrorCodeConsts, "ErrorCodeInvalidNumberSyntax")
ErrorCodeIntegerOutOfRange             == Iota(ErrorCodeConsts, "ErrorCodeIntegerOutOfRange")
ErrorCodeNumberOutOfRange              == Iota(ErrorCodeConsts, "ErrorCodeNumberOutOfRange")
ErrorCodeFractionalPartTooLong         == Iota(ErrorCodeConsts, "ErrorCodeFractionalPartTooLong")
ErrorCodeEscapeSequenceTooShort        == Iota(ErrorCodeConsts, "ErrorCodeEscapeSequenceTooShort")
ErrorCodeInvalidUnicodeCodePoint       == Iota(ErrorCodeConsts, "ErrorCodeInvalidUnicodeCodePoint")
ErrorCodeUnknownEscapeSequence         == Iota(ErrorCodeConsts, "ErrorCodeUnknownEscapeSequence")
ErrorCodeInvalidBytesSize              == Iota(ErrorCodeConsts, "ErrorCodeInvalidBytesSize")
ErrorCodeInvalidIntSize                == Iota(ErrorCodeConsts, "ErrorCodeInvalidIntSize")
ErrorCodeInvalidUintSize               == Iota(ErrorCodeConsts, "ErrorCodeInvalidUintSize")
ErrorCodeInvalidFixedSize              == Iota(ErrorCodeConsts, "ErrorCodeInvalidFixedSize")
ErrorCodeInvalidUfixedSize             == Iota(ErrorCodeConsts, "ErrorCodeInvalidUfixedSize")
ErrorCodeInvalidFixedFractionalDigits  == Iota(ErrorCodeConsts, "ErrorCodeInvalidFixedFractionalDigits")
ErrorCodeInvalidUfixedFractionalDigits == Iota(ErrorCodeConsts, "ErrorCodeInvalidUfixedFractionalDigits")
ErrorCodeInvalidDataType               == Iota(ErrorCodeConsts, "ErrorCodeInvalidDataType")
ErrorCodeOverflow                      == Iota(ErrorCodeConsts, "ErrorCodeOverflow")
ErrorCodeUnderflow                     == Iota(ErrorCodeConsts, "ErrorCodeUnderflow")
ErrorCodeIndexOutOfRange               == Iota(ErrorCodeConsts, "ErrorCodeIndexOutOfRange")
ErrorCodeInvalidCastType               == Iota(ErrorCodeConsts, "ErrorCodeInvalidCastType")
ErrorCodeDividedByZero                 == Iota(ErrorCodeConsts, "ErrorCodeDividedByZero")

---------------------------------------------------------------------------
(* Name tables: indexed array literals [...]string{index: value, ...} *)

\* The array an indexed composite literal builds: its length is the largest
\* index plus one, and an index the literal does not name holds "".
\* Go index i is index i + 1 of the sequence.
ArrayLiteral(kv) ==
    LET n == (CHOOSE i \in {p[1] : p \in kv} : \A p \in kv : p[1] <= i) + 1
    IN  [i \in 1..n |-> IF \E p \in kv : p[1] = i - 1
                        THEN (CHOOSE p \in kv : p[1] = i - 1)[2]
                        ELSE ""]

errorCategoryMapLiteral ==
    ArrayLiteral({ <<ErrorCategoryLimit,    "limit">>,
                   <<ErrorCategoryGrammar,  "grammar">>,
                   <<ErrorCategorySemantic, "semantic">>,
                   <<ErrorCategoryRuntime,  "runtime">> })

\* The code table without the entry of its last constant.
errorCodeMapTruncated ==
    ArrayLiteral({ <<ErrorCodeDepthLimitReached,             "depth limit reached">>,
                   <<ErrorCodeParser,                        "parser error">>,
                   <<ErrorCodeInvalidIntegerSyntax,          "invalid integer syntax">>,
                   <<ErrorCodeInvalidNumberSyntax,           "invalid number syntax">>,
                   <<ErrorCodeIntegerOutOfRange,             "integer out of range">>,
                   <<ErrorCodeNumberOutOfRange,              "number out of range">>,
                   <<ErrorCodeFractionalPartTooLong,         "fractional part too long">>,
                   <<ErrorCodeEscapeSequenceTooShort,        "escape sequence too short">>,
                   <<ErrorCodeInvalidUnicodeCodePoint,       "invalid unicode code point">>,
                   <<ErrorCodeUnknownEscapeSequence,         "unknown escape sequence">>,
                   <<ErrorCodeInvalidBytesSize,              "invalid bytes size">>,
                   <<ErrorCodeInvalidIntSize,                "invalid int size">>,
                   <<ErrorCodeInvalidUintSize,               "invalid uint size">>,
                   <<ErrorCodeInvalidFixedSize,              "invalid fixed size">>,
                   <<ErrorCodeInvalidUfixedSize,             "invalid ufixed size">>,
                   <<ErrorCodeInvalidFixedFractionalDigits,  "invalid fixed fractional digits">>,
                   <<ErrorCodeInvalidUfixedFractionalDigits, "invalid ufixed fractional digits">>,
                   <<ErrorCodeInvalidDataType,               "invalid data type">>,
                   <<ErrorCodeOverflow,                      "overflow">>,
                   <<ErrorCodeUnderflow,                     "underflow">>,
                   <<ErrorCodeIndexOutOfRange,               "index out of range">>,
                   <<ErrorCodeInvalidCastType,               "invalid cast type">> })

errorCodeMapLiteral ==
    ArrayLiteral({ <<ErrorCodeDepthLimitReached,             "depth limit reached">>,
                   <<ErrorCodeParser,                        "parser error">>,
                   <<ErrorCodeInvalidIntegerSyntax,          "invalid integer syntax">>,
                   <<ErrorCodeInvalidNumberSyntax,           "invalid number syntax">>,
                   <<ErrorCodeIntegerOutOfRange,             "integer out of range">>,
                   <<ErrorCodeNumberOutOfRange,              "number out of range">>,
                   <<ErrorCodeFractionalPartTooLong,         "fractional part too long">>,
                   <<ErrorCodeEscapeSequenceTooShort,        "escape sequence too short">>,
                   <<ErrorCodeInvalidUnicodeCodePoint,       "invalid unicode code point">>,
                   <<ErrorCodeUnknownEscapeSequence,         "unknown escape sequence">>,
                   <<ErrorCodeInvalidBytesSize,              "invalid bytes size">>,
                   <<ErrorCodeInvalidIntSize,                "invalid int size">>,
                   <<ErrorCodeInvalidUintSize,               "invalid uint size">>,
                   <<ErrorCodeInvalidFixedSize,              "invalid fixed size">>,
                   <<ErrorCodeInvalidUfixedSize,             "invalid ufixed size">>,
                   <<ErrorCodeInvalidFixedFractionalDigits,  "invalid fixed fractional digits">>,
                   <<ErrorCodeInvalidUfixedFractionalDigits, "invalid ufixed fractional digits">>,
                   <<ErrorCodeInvalidDataType,               "invalid data type">>,
                   <<ErrorCodeOverflow,                      "overflow">>,
                   <<ErrorCodeUnderflow,                     "underflow">>,
                   <<ErrorCodeIndexOutOfRange,               "index out of range">>,
                   <<ErrorCodeInvalidCastType,               "invalid cast type">>,
                   <<ErrorCodeDividedByZero,                 "divide by zero">> })

---------------------------------------------------------------------------
(* Formatting *)

\* fmt's %d of an unsigned integer: its decimal digits, no sign, no padding.
RECURSIVE FmtD(_)
FmtD(n) ==
    IF n < 10 THEN SubSeq("0123456789", n + 1, n + 1)
    ELSE FmtD(n \div 10) \o SubSeq("0123456789", (n % 10) + 1, (n % 10) + 1)

\* arr[i] on an array: the element, or the run-time panic of the bounds check.
Index(arr, i) ==
    IF i < Len(arr)
    THEN Ok(arr[i + 1])
    ELSE Panic("runtime error: index out of range [" \o FmtD(i)
               \o "] with length " \o FmtD(Len(arr)))

\* func (c ErrorCategory) Error() string
ErrorCategoryError(c) == Index(errorCategoryMap, c)

\* func (c ErrorCode) Error() string
ErrorCodeError(c) == Index(errorCodeMap, c)

\* A %s that lets the panic of the operand's Error method through.
FmtSNoRecover(r) == r

\* fmt's %s of an operand that implements error: the string its Error method
\* returns; a panic of that method is recovered by fmt and printed in place
\* of the string.
FmtS(r) ==
    IF r.panic
    THEN Ok("%!s(PANIC=Error method: " \o r.val \o ")")
    ELSE r

\* strconv.Quote of one byte, for the bytes the model's inputs use.
QuoteByte(ch) ==
    CASE ch = "\"" -> "\\\""
      [] ch = "\\" -> "\\\\"
      [] ch = "\n" -> "\\n"
      [] ch = "\t" -> "\\t"
      [] ch = "\r" -> "\\r"
      [] ch = "\f" -> "\\f"
      [] OTHER     -> ch

RECURSIVE QuoteBody(_)
QuoteBody(s) ==
    IF s = "" THEN ""
    ELSE QuoteByte(SubSeq(s, 1, 1)) \o QuoteBody(SubSeq(s, 2, Len(s)))

\* A quoting that wraps the string and escapes nothing.
QuoteRaw(s) == "\"" \o s \o "\""

\* strconv.Quote: a double-quoted Go string literal.
Quote(s) == "\"" \o QuoteBody(s) \o "\""

---------------------------------------------------------------------------
(* Error *)

\* type Error struct: the zero value Error{}.
Error ==
    [Position |-> 0, Length |-> 0, Category |-> 0, Code |-> 0,
     Token |-> "", Prefix |-> "", Message |-> ""]

\* A builder that keeps what an earlier call wrote.
BuilderKept(old) == old

\* b := strings.Builder{}: an empty builder, whatever an earlier call's
\* builder `old` held.
Builder(old) == ""

\* A location test that asks for both a position and a length.
HasLocationBoth(e) == e.Position > 0 /\ e.Length > 0

\* if e.Position > 0 || e.Length > 0
HasLocation(e) == e.Position > 0 \/ e.Length > 0

\* fmt.Sprintf(", category %d (%s), code %d (%s)", e.Category, e.Category,
\* e.Code, e.Code): %d prints the number, %s what the Error method returns.
CategoryCodeClause(e) ==
    LET cn == FmtS(ErrorCategoryError(e.Category))
        dn == FmtS(ErrorCodeError(e.Code))
    IN  IF cn.panic THEN cn
        ELSE IF dn.panic THEN dn
        ELSE Ok(", category " \o FmtD(e.Category) \o " (" \o cn.val
                \o "), code " \o FmtD(e.Code) \o " (" \o dn.val \o ")")

\* func (e Error) Error() string. `old` is what the builder of an earlier
\* call held. The result is [b |-> the builder at the end, ret |-> the result].
ErrorError(old, e) ==
    LET b0 == Builder(old)
        b1 == IF HasLocation(e)
              THEN LET o == b0 \o "offset " \o FmtD(e.Position)
                   IN  IF e.Length > 0
                       THEN o \o ", length " \o FmtD(e.Length)
                       ELSE o
              ELSE b0 \o "unknown location"
        cc == CategoryCodeClause(e)
    IN  IF cc.panic THEN [b |-> b1, ret |-> cc]
        ELSE
        LET b2 == b1 \o cc.val
            b3 == IF e.Token # ""
                  THEN b2 \o ", token " \o Quote(e.Token) ELSE b2
            b4 == IF e.Prefix # ""
                  THEN b3 \o ", hint " \o Quote(e.Prefix) ELSE b3
            b5 == IF e.Message # ""
                  THEN b4 \o ", message: " \o e.Message ELSE b4
        IN  [b |-> b5, ret |-> Ok(b5)]

---------------------------------------------------------------------------
(* ErrorList *)

\* A separator written before every element, the first included.
SeparatorAlways(i) == i >= 0

\* if i > 0
NeedsSeparator(i) == i > 0

\* The loop of ErrorList.Error from Go index i on, the builder holding b0.
RECURSIVE ErrorListLoop(_, _, _)
ErrorListLoop(b0, l, i) ==
    IF i >= Len(l) THEN [b |-> b0, ret |-> Ok(b0)]
    ELSE LET b1 == IF NeedsSeparator(i) THEN b0 \o "\n" ELSE b0
             r  == ErrorError("", l[i + 1]).ret
         IN  IF r.panic THEN [b |-> b1, ret |-> r]
             ELSE ErrorListLoop(b1 \o r.val, l, i + 1)

\* func (e ErrorList) Error() string
ErrorListError(old, l) == ErrorListLoop(Builder(old), l, 0)

---------------------------------------------------------------------------
(* ABI boundary *)

\* A view that also hands over the token.
ABIViewWithToken(e) ==
    [Position |-> e.Position, Length |-> e.Length,
     Category |-> e.Category, Code |-> e.Code, Token |-> e.Token]

\* What the caller of the contract obtains of an Error.
ABIView(e) ==
    [Position |-> e.Position, Length |-> e.Length,
     Category |-> e.Category, Code |-> e.Code]

---------------------------------------------------------------------------
(* Inputs *)

\* The longest ErrorList built.
MaxLen == 3

Positions  == {0, 10}
Lengths    == {0, 5}
Categories == 0..6 \cup {65535}
Codes      == 0..25 \cup {65535}
Tokens     == {"", "a\"b\\c\nd"}
Prefixes   == {"", "p\tq"}
Messages   == {"", "m, token \"t\""}

\* Every category with every code, the other fields zero; every
\* combination of the other fields with a few (category, code) pairs; and
\* Position and Length at 2^31 - 1, the largest integer TLC holds (the
\* fields are uint32; the code does no arithmetic on them).
Errors ==
    [Position : {0}, Length : {0}, Category : Categories, Code : Codes,
     Token : {""}, Prefix : {""}, Message : {""}]
    \cup
    { [Position |-> p, Length |-> l, Category |-> cc[1], Code |-> cc[2],
       Token |-> t, Prefix |-> h, Message |-> m] :
         p \in Positions, l \in Lengths,
         cc \in { <<ErrorCategoryNil, ErrorCodeNil>>,
                  <<ErrorCategoryGrammar, ErrorCodeParser>>,
                  <<ErrorCategoryGrammar, 24>>,
                  <<5, ErrorCodeDividedByZero>> },
         t \in Tokens, h \in Prefixes, m \in Messages }
    \cup
    { [Error EXCEPT !.Position = 2147483647, !.Length = l,
                    !.Category = ErrorCategoryRuntime,
                    !.Code = ErrorCodeOverflow] : l \in {0, 2147483647} }

ListErrors ==
    { Error,
      [Error EXCEPT !.Position = 10, !.Category = ErrorCategoryGrammar,
                    !.Code = ErrorCodeParser],
      [Error EXCEPT !.Position = 10, !.Length = 5,
                    !.Category = ErrorCategoryRuntime,
                    !.Code = ErrorCodeDividedByZero,
                    !.Token = "a\"b", !.Message = "line\nbreak"],
      [Error EXCEPT !.Length = 5, !.Category = 5, !.Code = 24,
                    !.Prefix = "p"] }

---------------------------------------------------------------------------
(* State machine *)

Init ==
    /\ errorCategoryMap = errorCategoryMapLiteral
    /\ errorCodeMap = errorCodeMapLiteral
    /\ cur = Error
    /\ list = << >>
    /\ b = ""
    /\ call = "init"
    /\ ret = Ok("")
    /\ abi = << >>

\* A producer assembles an Error value.
NewError(S) ==
    \E x \in S :
        /\ cur' = x
        /\ call' = "Error{}"
        /\ b' = ""
        /\ ret' = Ok("")
        /\ abi' = << >>
        /\ UNCHANGED <<errorCategoryMap, errorCodeMap, list>>

\* cur.Error()
CallErrorError ==
    LET r == ErrorError(b, cur)
    IN  /\ call' = "Error.Error"
        /\ b' = r.b
        /\ ret' = r.ret
        /\ UNCHANGED <<errorCategoryMap, errorCodeMap, cur, list, abi>>

\* cur.Category.Error()
CallErrorCategoryError ==
    /\ call' = "ErrorCategory.Error"
    /\ ret' = ErrorCategoryError(cur.Category)
    /\ UNCHANGED <<errorCategoryMap, errorCodeMap, cur, list, b, abi>>

\* cur.Code.Error()
CallErrorCodeError ==
    /\ call' = "ErrorCode.Error"
    /\ ret' = ErrorCodeError(cur.Code)
    /\ UNCHANGED <<errorCategoryMap, errorCodeMap, cur, list, b, abi>>

\* cur is returned to the contract caller.
Marshal ==
    /\ call' = "abi"
    /\ abi' = << ABIView(cur) >>
    /\ UNCHANGED <<errorCategoryMap, errorCodeMap, cur, list, b, ret>>

\* list = append(list, cur)
CallAppend ==
    /\ Len(list) < MaxLen
    /\ call' = "append"
    /\ list' = Append(list, cur)
    /\ UNCHANGED <<errorCategoryMap, errorCodeMap, cur, b, ret, abi>>

\* list.Error()
CallErrorListError ==
    LET r == ErrorListError(b, list)
    IN  /\ call' = "ErrorList.Error"
        /\ b' = r.b
        /\ ret' = r.ret
        /\ UNCHANGED <<errorCategoryMap, errorCodeMap, cur, list, abi>>

Next ==
    \/ NewError(Errors)
    \/ CallErrorError
    \/ CallErrorCategoryError
    \/ CallErrorCodeError
    \/ Marshal

Spec == Init /\ [][Next]_vars

NextList ==
    \/ NewError(ListErrors)
    \/ CallErrorError
    \/ CallAppend
    \/ CallErrorListError

SpecList == Init /\ [][NextList]_vars

---------------------------------------------------------------------------
(* Text predicates used to state the properties *)

HasPrefix(s, p) == Len(p) <= Len(s) /\ SubSeq(s, 1, Len(p)) = p

HasSuffix(s, p) == Len(p) <= Len(s) /\ SubSeq(s, Len(s) - Len(p) + 1, Len(s)) = p

Drop(s, n) == SubSeq(s, n + 1, Len(s))

Contains(s, p) == \E i \in 1..Len(s) : HasPrefix(Drop(s, i - 1), p)

UpperCase ==
    {"A", "B", "C", "D", "E", "F", "G", "H", "I", "J", "K", "L", "M",
     "N", "O", "P", "Q", "R", "S", "T", "U", "V", "W", "X", "Y", "Z"}

IsLowercase(s) == \A i \in 1..Len(s) : SubSeq(s, i, i) \notin UpperCase

\* The index of the quote that closes a string literal whose text from
\* index i on is scanned; 0 when there is none.
RECURSIVE ClosingQuote(_, _)
ClosingQuote(s, i) ==
    IF i > Len(s) THEN 0
    ELSE IF SubSeq(s, i, i) = "\\" THEN ClosingQuote(s, i + 2)
    ELSE IF SubSeq(s, i, i) = "\"" THEN i
    ELSE ClosingQuote(s, i + 1)

\* The string a literal's body denotes, read escape by escape.
RECURSIVE Unescape(_)
Unescape(s) ==
    IF s = "" THEN ""
    ELSE IF SubSeq(s, 1, 1) = "\\" /\ Len(s) >= 2
    THEN (CASE SubSeq(s, 2, 2) = "n" -> "\n"
            [] SubSeq(s, 2, 2) = "t" -> "\t"
            [] SubSeq(s, 2, 2) = "r" -> "\r"
            [] SubSeq(s, 2, 2) = "f" -> "\f"
            [] OTHER -> SubSeq(s, 2, 2)) \o Unescape(Drop(s, 2))
    ELSE SubSeq(s, 1, 1) \o Unescape(Drop(s, 1))

\* No line break or other control byte stands unescaped in s.
NoRawControl(s) ==
    \A i \in 1..Len(s) : SubSeq(s, i, i) \notin {"\n", "\t", "\r", "\f"}

\* s starts with `intro`, then a quoted literal that denotes `text`; the
\* result is what follows the literal, or "?" when s does not start so.
AfterQuoted(s, intro, text) ==
    LET t == Drop(s, Len(intro))
        k == ClosingQuote(t, 2)
    IN  IF /\ HasPrefix(s, intro \o "\"")
           /\ k > 0
           /\ NoRawControl(SubSeq(t, 2, k - 1))
           /\ Unescape(SubSeq(t, 2, k - 1)) = text
        THEN <<Drop(t, k)>>
        ELSE << >>

\* The location clause of the rendering of e.
LocationClause(e) ==
    IF e.Position = 0 /\ e.Length = 0 THEN "unknown location"
    ELSE "offset " \o FmtD(e.Position)
         \o (IF e.Length > 0 THEN ", length " \o FmtD(e.Length) ELSE "")

RECURSIVE JoinLines(_)
JoinLines(l) ==
    IF l = << >> THEN ""
    ELSE IF Len(l) = 1 THEN ErrorError("", l[1]).ret.val
    ELSE JoinLines(SubSeq(l, 1, Len(l) - 1)) \o "\n"
         \o ErrorError("", l[Len(l)]).ret.val

AgreeOnABI(x, y) ==
    /\ x.Position = y.Position
    /\ x.Length = y.Length
    /\ x.Category = y.Category
    /\ x.Code = y.Code

---------------------------------------------------------------------------
(* Properties *)

\* C1: a name lookup of a Category above 4 or a Code above 23 returns an
\* explicit fallback name and does not end in an out-of-bounds fault.
C1_FallbackName ==
    /\ (call = "ErrorCategory.Error" /\ cur.Category > 4)
          => (~ret.panic /\ ret.val # "")
    /\ (call = "ErrorCode.Error" /\ cur.Code > 23)
          => (~ret.panic /\ ret.val # "")

\* C2: for every Category in 1..4 and every Code in 1..23 the name lookup
\* returns, without a fault, the nonempty lowercase name the table literal
\* gives it, the maximum-valued constants included.
C2_DefinedNames ==
    /\ \A c \in 1..4 :
          LET r == ErrorCategoryError(c)
          IN  ~r.panic /\ r.val # "" /\ IsLowercase(r.val)
    /\ \A c \in 1..23 :
          LET r == ErrorCodeError(c)
          IN  ~r.panic /\ r.val # "" /\ IsLowercase(r.val)
    /\ ErrorCategoryError(ErrorCategoryRuntime) = Ok("runtime")
    /\ ErrorCodeError(ErrorCodeDividedByZero) = Ok("divide by zero")
    /\ (call = "ErrorCategory.Error" /\ cur.Category \in 1..4)
          => /\ ~ret.panic /\ ret.val # "" /\ IsLowercase(ret.val)
             /\ ret.val = errorCategoryMapLiteral[cur.Category + 1]
    /\ (call = "ErrorCode.Error" /\ cur.Code \in 1..23)
          => /\ ~ret.panic /\ ret.val # "" /\ IsLowercase(ret.val)
             /\ ret.val = errorCodeMapLiteral[cur.Code + 1]

C2_Witness ==
    /\ call = "ErrorCode.Error"
    /\ cur.Code = 23
    /\ ret = Ok("divide by zero")

\* C3: Error.Error returns a string and does not fault, whatever the fields
\* of the Error are, Nil and out-of-range Category and Code included.
C3_RenderNeverFaults ==
    call = "Error.Error" => (~ret.panic /\ ret.val = b /\ Len(ret.val) > 0)

C3_Witness ==
    /\ call = "Error.Error"
    /\ cur.Category = 65535
    /\ cur.Code = 24
    /\ ~ret.panic

\* C4: the rendering starts with "unknown location" exactly when Position
\* and Length are both 0; otherwise with "offset <Position>", followed by
\* ", length <Length>" exactly when Length > 0; the category clause follows.
C4_LocationClause ==
    call = "Error.Error" =>
        LET s == ret.val
            unknown == cur.Position = 0 /\ cur.Length = 0
            offset == "offset " \o FmtD(cur.Position)
            rest == Drop(s, Len(offset))
        IN  /\ unknown <=> HasPrefix(s, "unknown location")
            /\ unknown => HasPrefix(s, "unknown location, category ")
            /\ ~unknown <=> HasPrefix(s, offset)
            /\ ~unknown =>
                  /\ (cur.Length > 0) <=> HasPrefix(rest, ", length ")
                  /\ (cur.Length > 0) =>
                        HasPrefix(rest, ", length " \o FmtD(cur.Length)
                                        \o ", category ")
                  /\ (cur.Length = 0) => HasPrefix(rest, ", category ")
            /\ (cur.Position = 10 /\ cur.Length = 5)
                  => HasPrefix(s, "offset 10, length 5, category ")
            /\ (cur.Position = 0 /\ cur.Length = 5)
                  => HasPrefix(s, "offset 0, length 5, category ")
            /\ (cur.Position = 10 /\ cur.Length = 0)
                  => HasPrefix(s, "offset 10, category ")

C4_Witness ==
    /\ call = "Error.Error"
    /\ cur.Position = 0
    /\ cur.Length = 5
    /\ HasPrefix(ret.val, "offset 0, length 5, category ")

\* C5: for every Error the rendering holds, directly after the location
\* clause, ", category <number> (<name>), code <number> (<name>)", each name
\* being the name the lookup of that value returns.
C5_CategoryCodeClause ==
    call = "Error.Error" =>
        LET cn == ErrorCategoryError(cur.Category)
            dn == ErrorCodeError(cur.Code)
        IN  /\ ~cn.panic
            /\ ~dn.panic
            /\ HasPrefix(ret.val,
                   LocationClause(cur)
                   \o ", category " \o FmtD(cur.Category) \o " (" \o cn.val
                   \o "), code " \o FmtD(cur.Code) \o " (" \o dn.val \o ")")

\* C5, for the values the tables hold (Category 0..4, Code 0..23): the
\* clause is there with the table's names, and the example of the claim
\* renders as the claim says.
C5_DefinedValues ==
    (call = "Error.Error" /\ cur.Category <= 4 /\ cur.Code <= 23) =>
        /\ HasPrefix(ret.val,
               LocationClause(cur)
               \o ", category " \o FmtD(cur.Category) \o " ("
               \o errorCategoryMapLiteral[cur.Category + 1]
               \o "), code " \o FmtD(cur.Code) \o " ("
               \o errorCodeMapLiteral[cur.Code + 1] \o ")")
        /\ cur = [Error EXCEPT !.Position = 10, !.Category = 2, !.Code = 2]
              => ret.val = "offset 10, category 2 (grammar), code 2 (parser error)"

\* C6: after the category/code clause come a ", token <quoted Token>" clause
\* exactly when Token is non-empty, a ", hint <quoted Prefix>" clause exactly
\* when Prefix is non-empty and a ", message: <Message>" clause exactly when
\* Message is non-empty, in this order and nothing else; a quoted text reads
\* back as the field; the all-zero Error renders with none of them.
C6_DebugClauses ==
    call = "Error.Error" =>
        LET head == LocationClause(cur) \o CategoryCodeClause(cur).val
            r0 == Drop(ret.val, Len(head))
            a1 == IF cur.Token # "" THEN AfterQuoted(r0, ", token ", cur.Token)
                  ELSE IF HasPrefix(r0, ", token ") THEN << >> ELSE <<r0>>
            r1 == IF a1 = << >> THEN "?" ELSE a1[1]
            a2 == IF cur.Prefix # "" THEN AfterQuoted(r1, ", hint ", cur.Prefix)
                  ELSE IF HasPrefix(r1, ", hint ") THEN << >> ELSE <<r1>>
            r2 == IF a2 = << >> THEN "?" ELSE a2[1]
        IN  /\ HasPrefix(ret.val, head)
            /\ a1 # << >>
            /\ a2 # << >>
            /\ r2 = (IF cur.Message # "" THEN ", message: " \o cur.Message
                     ELSE "")
            /\ cur = Error
                  => ret.val = "unknown location, category 0 (), code 0 ()"
            /\ (cur.Token = "a\"b\\c\nd" /\ cur.Prefix = "" /\ cur.Message = "")
                  => r0 = ", token \"a\\\"b\\\\c\\nd\""

C6_Witness ==
    /\ call = "Error.Error"
    /\ cur.Token # ""
    /\ cur.Prefix = ""
    /\ cur.Message # ""
    /\ HasSuffix(ret.val, ", message: " \o cur.Message)

\* C7: the rendering of an ErrorList is the renderings of its elements in
\* insertion order with one "\n" between consecutive elements and none
\* before the first or after the last; an append keeps the earlier elements
\* in place and adds the new one at the end.
C7_ListRender ==
    /\ [](call = "ErrorList.Error" =>
            /\ ret = Ok(JoinLines(list))
            /\ list = << >> => ret.val = ""
            /\ Len(list) = 1 => ret.val = ErrorError("", list[1]).ret.val
            /\ Len(list) = 2 => ret.val = ErrorError("", list[1]).ret.val
                                          \o "\n"
                                          \o ErrorError("", list[2]).ret.val)
    /\ [][call' = "append" =>
            /\ Len(list') = Len(list) + 1
            /\ SubSeq(list', 1, Len(list)) = list
            /\ list'[Len(list')] = cur]_vars

C7_Witness ==
    /\ call = "ErrorList.Error"
    /\ Len(list) = 3
    /\ list[1] # list[2]
    /\ ret = Ok(ErrorError("", list[1]).ret.val \o "\n"
                \o ErrorError("", list[2]).ret.val \o "\n"
                \o ErrorError("", list[3]).ret.val)

\* C8: the named constants have the values of the frozen table: Category
\* 0..4, Code 0..23 in declaration order; no two constants of one
\* enumeration share a value and only Nil is 0; the name tables hold each
\* constant's name at its number.
C8_FrozenValues ==
    /\ ErrorCategoryNil = 0
    /\ ErrorCategoryLimit = 1
    /\ ErrorCategoryGrammar = 2
    /\ ErrorCategorySemantic = 3
    /\ ErrorCategoryRuntime = 4
    /\ ErrorCodeNil = 0
    /\ ErrorCodeDepthLimitReached = 1
    /\ ErrorCodeParser = 2
    /\ ErrorCodeInvalidIntegerSyntax = 3
    /\ ErrorCodeInvalidNumberSyntax = 4
    /\ ErrorCodeIntegerOutOfRange = 5
    /\ ErrorCodeNumberOutOfRange = 6
    /\ ErrorCodeFractionalPartTooLong = 7
    /\ ErrorCodeEscapeSequenceTooShort = 8
    /\ ErrorCodeInvalidUnicodeCodePoint = 9
    /\ ErrorCodeUnknownEscapeSequence = 10
    /\ ErrorCodeInvalidBytesSize = 11
    /\ ErrorCodeInvalidIntSize = 12
    /\ ErrorCodeInvalidUintSize = 13
    /\ ErrorCodeInvalidFixedSize = 14
    /\ ErrorCodeInvalidUfixedSize = 15
    /\ ErrorCodeInvalidFixedFractionalDigits = 16
    /\ ErrorCodeInvalidUfixedFractionalDigits = 17
    /\ ErrorCodeInvalidDataType = 18
    /\ ErrorCodeOverflow = 19
    /\ ErrorCodeUnderflow = 20
    /\ ErrorCodeIndexOutOfRange = 21
    /\ ErrorCodeInvalidCastType = 22
    /\ ErrorCodeDividedByZero = 23
    /\ Cardinality({Iota(ErrorCategoryConsts, ErrorCategoryConsts[i]) :
                        i \in 1..Len(ErrorCategoryConsts)}) = 5
    /\ Cardinality({Iota(ErrorCodeConsts, ErrorCodeConsts[i]) :
                        i \in 1..Len(ErrorCodeConsts)}) = 24
    /\ \A i \in 2..Len(ErrorCategoryConsts) :
          Iota(ErrorCategoryConsts, ErrorCategoryConsts[i]) # 0
    /\ \A i \in 2..Len(ErrorCodeConsts) :
          Iota(ErrorCodeConsts, ErrorCodeConsts[i]) # 0
    /\ errorCategoryMap[ErrorCategoryGrammar + 1] = "grammar"
    /\ errorCategoryMap[4 + 1] = "runtime"
    /\ errorCodeMap[ErrorCodeParser + 1] = "parser error"
    /\ errorCodeMap[17 + 1] = "invalid ufixed fractional digits"
    /\ errorCodeMap[18 + 1] = "invalid data type"
    /\ errorCodeMap[23 + 1] = "divide by zero"

C8_Witness ==
    /\ call = "Error.Error"
    /\ cur.Category = ErrorCategoryRuntime
    /\ cur.Code = ErrorCodeDividedByZero
    /\ ret.val = "unknown location, category 4 (runtime), code 23 (divide by zero)"

\* C9: a render call changes no field of the Error, no element of the
\* ErrorList nor its length, and neither name table; a render call that
\* follows a render call of the same kind on the same value returns what
\* that one returned.
C9_RenderPure ==
    [][call' \in {"Error.Error", "ErrorList.Error"} =>
         /\ cur' = cur
         /\ list' = list
         /\ errorCategoryMap' = errorCategoryMap
         /\ errorCodeMap' = errorCodeMap
         /\ call' = call => ret' = ret]_vars

C9_Witness ==
    /\ call = "ErrorList.Error"
    /\ Len(list) = 2
    /\ ret.val = b
    /\ Len(b) > 0

\* C10: what is handed across the ABI boundary is fixed by Position, Length,
\* Category and Code: an Error that agrees with cur on the four gives the
\* same record, whatever its Token, Prefix and Message.
C10_ABIOnlyScalars ==
    call = "abi" =>
        /\ DOMAIN abi[1] = {"Position", "Length", "Category", "Code"}
        /\ \A y \in Errors : AgreeOnABI(y, cur) => abi = << ABIView(y) >>

C10_Witness ==
    /\ call = "abi"
    /\ cur.Token # ""
    /\ cur.Message # ""
    /\ abi[1].Position = 10

=============================================================================
